---- MODULE Spec2Model ----
(***************************************************************************)
(* file_organizer.py: scan a directory and move every regular file into a  *)
(* subdirectory named after its extension.                                 *)
(*                                                                         *)
(* A file name is a sequence of one-character strings, a path a sequence   *)
(* of names (the empty path is the filesystem root), and the filesystem a  *)
(* function from the existing paths to their entries.  A regular file      *)
(* carries its content in `data`; the content of a file of the initial    *)
(* tree is the path it had there, so the content identifies the file.     *)
(* Symbolic links and case-insensitive filesystems are not modelled.       *)
(***************************************************************************)
EXTENDS Integers, Sequences, FiniteSets, TLC

VARIABLES
    fs,             \* the filesystem: path -> entry
    recursive,      \* organize_directory's argument, the same in every call
    keep_top_level, \* organize_directory's argument, the same in every call
    pc,             \* "idle" between calls, "loop" inside organize_directory
    dry_run,        \* the running call's argument
    before,         \* the filesystem when the running call began
    files,          \* the running call's snapshot: list(get_files_to_move(..))
    i,              \* index in files of the next file of the for loop
    moved_count,    \* the running call's counter
    outcomes,       \* what move_file did for files[1..i-1] in the running call
    hist            \* the finished calls, oldest first

vars == <<fs, recursive, keep_top_level, pc, dry_run, before, files, i,
          moved_count, outcomes, hist>>

(***************************************************************************)
(* Bounds                                                                  *)
(***************************************************************************)
\* the largest number of regular files in an initial tree
MaxFiles == 2
\* the number of organize_directory calls made one after the other
MaxCalls == 2

(***************************************************************************)
(* Strings                                                                 *)
(***************************************************************************)
\* str.lower() on one character
LowerChar(c) ==
    CASE c = "T" -> "t"
      [] c = "X" -> "x"
      [] c = "A" -> "a"
      [] OTHER -> c

\* str.lower()
lower(s) == [k \in 1..Len(s) |-> LowerChar(s[k])]

\* str.lstrip(chars) for a single character
RECURSIVE lstrip(_, _)
lstrip(s, c) ==
    IF s # <<>> /\ s[1] = c THEN lstrip(Tail(s), c) ELSE s

\* one decimal digit as a character
Digit(d) ==
    CASE d = 0 -> "0" [] d = 1 -> "1" [] d = 2 -> "2" [] d = 3 -> "3"
      [] d = 4 -> "4" [] d = 5 -> "5" [] d = 6 -> "6" [] d = 7 -> "7"
      [] d = 8 -> "8" [] d = 9 -> "9"

\* str(idx) as the f-string formats a non-negative integer
RECURSIVE str(_)
str(n) == IF n < 10 THEN <<Digit(n)>> ELSE str(n \div 10) \o <<Digit(n % 10)>>

\* str.rfind(".") + 1: the 1-based index of the last dot of a name, 0 if none
rfind_dot(n) ==
    LET dots == {k \in 1..Len(n) : n[k] = "."}
    IN  IF dots = {} THEN 0 ELSE CHOOSE k \in dots : \A j \in dots : j <= k

(***************************************************************************)
(* pathlib                                                                 *)
(***************************************************************************)
\* Path.name
name(p) == p[Len(p)]

\* Path.parent
parent(p) == SubSeq(p, 1, Len(p) - 1)

\* Path.suffix, of a name: the last dot and what follows it, unless the dot
\* is the name's first or last character
suffix(n) ==
    LET k == rfind_dot(n)
    IN  IF 1 < k /\ k < Len(n) THEN SubSeq(n, k, Len(n)) ELSE <<>>

\* Path.stem, of a name
stem(n) ==
    LET k == rfind_dot(n)
    IN  IF 1 < k /\ k < Len(n) THEN SubSeq(n, 1, k - 1) ELSE n

\* Path.exists()
exists(f, p) == p \in DOMAIN f

\* Path.is_dir()
is_dir(f, p) == p \in DOMAIN f /\ f[p].dir

\* Path.is_file()
is_file(f, p) == p \in DOMAIN f /\ ~f[p].dir

\* Path.iterdir(): the entries directly inside d
iterdir(f, d) == {p \in DOMAIN f : Len(p) = Len(d) + 1 /\ parent(p) = d}

\* Path.rglob("*"): the entries at any depth under d
rglob(f, d) == {p \in DOMAIN f : Len(p) > Len(d) /\ SubSeq(p, 1, Len(d)) = d}

\* a directory entry
DirEntry == [dir |-> TRUE, data |-> <<>>]

\* Path.mkdir(parents=True, exist_ok=True): creates d and its missing
\* ancestors; raises when d or an ancestor of d is not a directory
mkdir(f, d) ==
    LET prefixes == {SubSeq(d, 1, k) : k \in 0..Len(d)}
        blocked  == \E q \in prefixes : is_file(f, q)
        made     == [p \in DOMAIN f \cup prefixes |->
                        IF p \in DOMAIN f THEN f[p] ELSE DirEntry]
    IN  IF blocked THEN [raised |-> TRUE, fs |-> f]
                   ELSE [raised |-> FALSE, fs |-> made]

\* os.rename(src, dst) of a regular file: dst is replaced when it is a file
rename(f, src, dst) ==
    [p \in (DOMAIN f \ {src}) \cup {dst} |-> IF p = dst THEN f[src] ELSE f[p]]

\* shutil.move(src, dst) of a regular file on one volume: into dst when dst
\* is a directory (raising when dst/name exists), onto dst otherwise
shutil_move(f, src, dst) ==
    IF ~exists(f, src) \/ ~is_dir(f, parent(dst))
    THEN [raised |-> TRUE, fs |-> f]
    ELSE IF is_dir(f, dst)
    THEN LET real_dst == Append(dst, name(src))
         IN  IF exists(f, real_dst)
             THEN [raised |-> TRUE, fs |-> f]
             ELSE [raised |-> FALSE, fs |-> rename(f, src, real_dst)]
    ELSE [raised |-> FALSE, fs |-> rename(f, src, dst)]

(***************************************************************************)
(* file_organizer.py                                                       *)
(***************************************************************************)
\* the directory organize_directory is called on
Target == << <<"r">> >>

\* the folder name of files without an extension
no_extension == <<"n", "o", "_", "e", "x", "t", "e", "n", "s", "i", "o", "n">>

\* get_files_to_move walking the whole tree whatever the flag says
get_files_to_move_always_rglob(f, root, rec) ==
    {p \in rglob(f, root) : is_file(f, p)}

\* get_files_to_move: the regular files the walk yields, as a set
get_files_to_move(f, root, rec) ==
    {p \in (IF rec THEN rglob(f, root) ELSE iterdir(f, root)) : is_file(f, p)}

\* the orders in which a directory walk can yield the files of S: the
\* platform's directory iteration order is arbitrary
Orders(S) ==
    {s \in [1..Cardinality(S) -> S] : \A j, k \in 1..Cardinality(S) :
                                          j # k => s[j] # s[k]}

\* extension_folder_name
extension_folder_name(ext) ==
    IF ext = <<>> THEN no_extension ELSE lstrip(lower(ext), ".")

\* the candidate of unique_destination's loop for index idx
candidate(dest, idx) ==
    Append(parent(dest),
           stem(name(dest)) \o <<"(">> \o str(idx) \o <<")">> \o suffix(name(dest)))

\* unique_destination's while loop, entered with index idx
RECURSIVE unique_search(_, _, _)
unique_search(f, dest, idx) ==
    IF ~exists(f, candidate(dest, idx))
    THEN candidate(dest, idx)
    ELSE unique_search(f, dest, idx + 1)

\* unique_destination without its early return for a free path
unique_destination_always_numbered(f, dest) == unique_search(f, dest, 1)

\* unique_destination without any collision handling
unique_destination_unchecked(f, dest) == dest

\* unique_destination
unique_destination(f, dest) ==
    IF ~exists(f, dest) THEN dest ELSE unique_search(f, dest, 1)

\* move_file: the filesystem it leaves, the path and action it returns, and
\* whether it raised instead of returning
move_file(f, src, dest_dir, dry) ==
    LET md         == mkdir(f, dest_dir)
        dest       == Append(dest_dir, name(src))
        final_dest == unique_destination(md.fs, dest)
        mv         == shutil_move(md.fs, src, final_dest)
    IN  IF md.raised
        THEN [raised |-> TRUE, fs |-> md.fs, dest |-> <<>>, action |-> "raised"]
        ELSE IF dry
        THEN [raised |-> FALSE, fs |-> md.fs, dest |-> final_dest,
              action |-> "dry-run"]
        ELSE IF mv.raised
        THEN [raised |-> TRUE, fs |-> mv.fs, dest |-> <<>>, action |-> "raised"]
        ELSE [raised |-> FALSE, fs |-> mv.fs, dest |-> final_dest,
              action |-> "moved"]

\* dest_dir_of with the two placements exchanged
dest_dir_of_swapped(target, p, keep) ==
    LET folder_name == extension_folder_name(suffix(name(p)))
    IN  IF keep THEN Append(parent(p), folder_name)
                ELSE Append(target, folder_name)

\* the destination directory organize_directory chooses for file p
dest_dir_of(target, p, keep) ==
    LET folder_name == extension_folder_name(suffix(name(p)))
    IN  IF keep THEN Append(target, folder_name)
                ELSE Append(parent(p), folder_name)

\* the check of the target done with exists() in place of is_dir()
valid_target_exists(f, target) == exists(f, target)

\* organize_directory's check of its target
valid_target(f, target) == is_dir(f, target)

\* counting the real moves only
counted_moved_only(action) == action = "moved"

\* whether an action returned by move_file is counted
counted(action) == action \in {"moved", "dry-run"}

(***************************************************************************)
(* The initial trees                                                       *)
(***************************************************************************)
\* the files an initial tree is chosen from, relative to Target
FilePool ==
    { << <<"x", ".", "t">> >>,
      << <<"x", ".", "a", ".", "T">> >>,
      << <<"x">> >>,
      << <<"t">> >>,
      << <<"t">>, <<"x", ".", "t">> >>,
      << <<"a">>, <<"x", ".", "t">> >> }

\* no chosen file lies under another chosen file
Consistent(S) ==
    \A p, q \in S : ~(Len(p) < Len(q) /\ SubSeq(q, 1, Len(p)) = p)

\* the tree that holds the files S under the directory Target
TreeOf(S) ==
    LET fpaths == {Target \o rel : rel \in S}
        dpaths == {<<>>, Target} \cup
                  UNION {{SubSeq(p, 1, k) : k \in 0..(Len(p) - 1)} : p \in fpaths}
    IN  [p \in fpaths \cup dpaths |->
            IF p \in fpaths THEN [dir |-> FALSE, data |-> p] ELSE DirEntry]

\* the filesystem root alone: Target does not exist
NoTarget == [p \in {<<>>} |-> DirEntry]

\* Target is a regular file
FileTarget ==
    [p \in {<<>>, Target} |->
        IF p = Target THEN [dir |-> FALSE, data |-> p] ELSE DirEntry]

InitTrees ==
    {TreeOf(S) : S \in {S \in SUBSET FilePool :
                            Cardinality(S) <= MaxFiles /\ Consistent(S)}}
    \cup {NoTarget, FileTarget}

(***************************************************************************)
(* The state machine                                                       *)
(***************************************************************************)
\* the record of a finished call
Finished(result, ret, out, after) ==
    [dry_run |-> dry_run, before |-> before, files |-> files, outcomes |-> out,
     result |-> result, ret |-> ret, after |-> after]

\* the state between two calls
Idle(after) ==
    /\ pc' = "idle"
    /\ dry_run' = FALSE
    /\ before' = after
    /\ files' = <<>>
    /\ i' = 1
    /\ moved_count' = 0
    /\ outcomes' = <<>>

Init ==
    /\ fs \in InitTrees
    /\ recursive \in BOOLEAN
    /\ keep_top_level \in BOOLEAN
    /\ pc = "idle"
    /\ dry_run = FALSE
    /\ before = fs
    /\ files = <<>>
    /\ i = 1
    /\ moved_count = 0
    /\ outcomes = <<>>
    /\ hist = <<>>

\* organize_directory on a target that is no directory: returns 0
organize_invalid ==
    /\ pc = "idle"
    /\ Len(hist) < MaxCalls
    /\ ~valid_target(fs, Target)
    /\ \E d \in BOOLEAN :
          hist' = Append(hist, [dry_run |-> d, before |-> fs, files |-> <<>>,
                                outcomes |-> <<>>, result |-> "invalid",
                                ret |-> 0, after |-> fs])
    /\ Idle(fs)
    /\ UNCHANGED <<fs, recursive, keep_top_level>>

\* organize_directory up to its for loop: the snapshot is taken
organize_begin ==
    /\ pc = "idle"
    /\ Len(hist) < MaxCalls
    /\ valid_target(fs, Target)
    /\ pc' = "loop"
    /\ dry_run' \in BOOLEAN
    /\ before' = fs
    /\ files' \in Orders(get_files_to_move(fs, Target, recursive))
    /\ i' = 1
    /\ moved_count' = 0
    /\ outcomes' = <<>>
    /\ UNCHANGED <<fs, recursive, keep_top_level, hist>>

\* organize_step iterating the walk lazily: a moved file is yielded again
organize_step_rescan ==
    /\ pc = "loop"
    /\ i <= Len(files)
    /\ LET r == move_file(fs, files[i],
                          dest_dir_of(Target, files[i], keep_top_level), dry_run)
       IN  /\ ~r.raised
           /\ fs' = r.fs
           /\ outcomes' = Append(outcomes,
                  [src |-> files[i], dest |-> r.dest, action |-> r.action])
           /\ moved_count' = moved_count + 1
           /\ files' = IF recursive /\ r.action = "moved"
                          THEN Append(files, r.dest) ELSE files
    /\ i' = i + 1
    /\ UNCHANGED <<recursive, keep_top_level, pc, dry_run, before, hist>>

\* one iteration of the for loop, move_file returning
organize_step ==
    /\ pc = "loop"
    /\ i <= Len(files)
    /\ LET r == move_file(fs, files[i],
                          dest_dir_of(Target, files[i], keep_top_level), dry_run)
       IN  /\ ~r.raised
           /\ fs' = r.fs
           /\ outcomes' = Append(outcomes,
                  [src |-> files[i], dest |-> r.dest, action |-> r.action])
           /\ moved_count' = IF counted(r.action) THEN moved_count + 1
                                                  ELSE moved_count
    /\ i' = i + 1
    /\ UNCHANGED <<recursive, keep_top_level, pc, dry_run, before, files, hist>>

\* organize_raise with the exception caught: the loop goes on to the next
\* file
organize_continue ==
    /\ pc = "loop"
    /\ i <= Len(files)
    /\ LET r == move_file(fs, files[i],
                          dest_dir_of(Target, files[i], keep_top_level), dry_run)
       IN  /\ r.raised
           /\ fs' = r.fs
           /\ outcomes' = Append(outcomes,
                  [src |-> files[i], dest |-> r.dest, action |-> r.action])
    /\ i' = i + 1
    /\ UNCHANGED <<recursive, keep_top_level, pc, dry_run, before, files,
                   moved_count, hist>>

\* one iteration of the for loop, move_file raising: the exception leaves
\* organize_directory
organize_raise ==
    /\ pc = "loop"
    /\ i <= Len(files)
    /\ LET r == move_file(fs, files[i],
                          dest_dir_of(Target, files[i], keep_top_level), dry_run)
       IN  /\ r.raised
           /\ fs' = r.fs
           /\ hist' = Append(hist, Finished("raised", moved_count,
                  Append(outcomes, [src |-> files[i], dest |-> r.dest,
                                    action |-> r.action]), r.fs))
           /\ Idle(r.fs)
    /\ UNCHANGED <<recursive, keep_top_level>>

\* the end of the for loop: organize_directory returns moved_count
organize_return ==
    /\ pc = "loop"
    /\ i > Len(files)
    /\ hist' = Append(hist, Finished("returned", moved_count, outcomes, fs))
    /\ Idle(fs)
    /\ UNCHANGED <<fs, recursive, keep_top_level>>

Next ==
    \/ organize_invalid
    \/ organize_begin
    \/ organize_step
    \/ organize_raise
    \/ organize_return

Spec == Init /\ [][Next]_vars

(***************************************************************************)
(* Vocabulary of the properties                                            *)
(***************************************************************************)
\* the finished calls
Calls == 1..Len(hist)

\* the regular files of a filesystem
RegularFiles(f) == {p \in DOMAIN f : ~f[p].dir}

\* the directories of a filesystem
Directories(f) == {p \in DOMAIN f : f[p].dir}

\* p lies under directory d, at any depth
Under(p, d) == Len(p) > Len(d) /\ SubSeq(p, 1, Len(d)) = d

\* p lies directly inside directory d
ChildOf(p, d) == Len(p) = Len(d) + 1 /\ SubSeq(p, 1, Len(d)) = d

\* the regular files a walk of Target has to yield
Scanned(f) ==
    {p \in RegularFiles(f) : IF recursive THEN Under(p, Target)
                                          ELSE ChildOf(p, Target)}

\* the elements of a sequence
Range(s) == {s[k] : k \in 1..Len(s)}

\* the name stem(k)suffix made from name n
Numbered(n, k) == stem(n) \o <<"(">> \o str(k) \o <<")">> \o suffix(n)

\* n begins with a and ends with b
Frames(n, a, b) ==
    /\ Len(n) >= Len(a) + Len(b)
    /\ SubSeq(n, 1, Len(a)) = a
    /\ SubSeq(n, Len(n) - Len(b) + 1, Len(n)) = b

\* the paths unique_destination is asked about in filesystem f: every name
\* in use, in every directory
Wanted(f) ==
    {Append(d, name(p)) : d \in Directories(f), p \in DOMAIN f \ {<<>>}}

(***************************************************************************)
(* C1                                                                      *)
(***************************************************************************)
\* C1: a call of organize_directory with dry_run=true leaves the filesystem
\* unchanged: the same directories and the same files, before and after and
\* at every point in between; no label directory is created.
DryRunLeavesFilesystemUnchanged ==
    /\ \A c \in Calls : hist[c].dry_run => hist[c].after = hist[c].before
    /\ (pc = "loop" /\ dry_run) => fs = before

(***************************************************************************)
(* C2                                                                      *)
(***************************************************************************)
\* a real run that completed, followed by a second real run
RunTwice(c) ==
    /\ c + 1 \in Calls
    /\ ~hist[c].dry_run /\ hist[c].result = "returned"
    /\ ~hist[c + 1].dry_run

\* the second of two runs moved nothing and changed nothing
SecondRunIdle(c) ==
    /\ hist[c + 1].result = "returned"
    /\ hist[c + 1].ret = 0
    /\ hist[c + 1].after = hist[c].after

\* C2 as stated: for every setting of recursive and keep_top_level, a real
\* run that completed followed by a second real run with the same settings:
\* the second run returns 0 and leaves the tree as the first left it.
SecondRunMovesNothing ==
    \A c \in Calls : RunTwice(c) => SecondRunIdle(c)

\* C2 amended: with recursive=false (and either keep_top_level), a real run
\* that completed followed by a second real run with the same settings: the
\* second run returns 0 and leaves the tree as the first left it.
NonRecursiveSecondRunMovesNothing ==
    ~recursive => \A c \in Calls : RunTwice(c) => SecondRunIdle(c)

\* a non-recursive run that moved files was followed by a second run
NonRecursiveSecondRunWitness ==
    /\ ~recursive
    /\ \E c \in Calls : RunTwice(c) /\ hist[c].ret = 2

(***************************************************************************)
(* C3                                                                      *)
(***************************************************************************)
\* C3: unique_destination(dest) is dest when dest does not exist; when dest
\* exists it is parent/stem(k)suffix for the smallest k >= 1 whose candidate
\* does not exist.  The result never exists, lies in dest's parent, and its
\* name begins with dest's stem and ends with dest's suffix.
UniqueDestinationSmallestFree ==
    \A dest \in Wanted(fs) :
        LET got == unique_destination(fs, dest)
            n   == name(dest)
        IN  /\ ~exists(fs, dest) => got = dest
            /\ exists(fs, dest) =>
                  \E k \in 1..Cardinality(DOMAIN fs) :
                      /\ got = Append(parent(dest), Numbered(n, k))
                      /\ \A j \in 1..(k - 1) :
                            exists(fs, Append(parent(dest), Numbered(n, j)))
            /\ ~exists(fs, got)
            /\ parent(got) = parent(dest)
            /\ Frames(name(got), stem(n), suffix(n))

\* a file was moved to stem(2)suffix: its destination and stem(1)suffix
\* both existed
UniqueDestinationWitness ==
    \E c \in Calls : \E k \in 1..Len(hist[c].outcomes) :
        LET o == hist[c].outcomes[k]
        IN  /\ o.action = "moved"
            /\ name(o.dest) = Numbered(name(o.src), 2)
            /\ is_file(hist[c].after, o.dest)

(***************************************************************************)
(* C4                                                                      *)
(***************************************************************************)
\* C4: when the target is a directory and no move fails, organize_directory
\* returns the number of regular files of the start-of-run snapshot (direct
\* children of the target, or files at any depth when recursive); dry and
\* real runs from the same tree return the same value; a run that finds no
\* file returns 0 and creates nothing.
ReturnCountsSnapshot ==
    /\ \A c \in Calls : hist[c].result = "returned" =>
          /\ hist[c].ret = Cardinality(Scanned(hist[c].before))
          /\ Scanned(hist[c].before) = {} =>
                /\ hist[c].ret = 0
                /\ hist[c].after = hist[c].before
    /\ \A c, d \in Calls :
          /\ hist[c].result = "returned" /\ hist[d].result = "returned"
          /\ hist[c].before = hist[d].before
          => hist[c].ret = hist[d].ret

\* a dry run and a real run from the same tree both returned 2
ReturnCountsWitness ==
    \E c, d \in Calls :
        /\ hist[c].dry_run /\ ~hist[d].dry_run
        /\ hist[c].result = "returned" /\ hist[d].result = "returned"
        /\ hist[c].before = hist[d].before
        /\ hist[c].ret = 2 /\ hist[d].ret = 2

(***************************************************************************)
(* C5                                                                      *)
(***************************************************************************)
\* C5: when the target does not exist or is not a directory,
\* organize_directory returns 0 without raising, walks nothing, calls
\* move_file for nothing and leaves the filesystem unchanged.
InvalidTargetReturnsZero ==
    /\ \A c \in Calls : ~is_dir(hist[c].before, Target) =>
          /\ hist[c].result = "invalid"
          /\ hist[c].ret = 0
          /\ hist[c].files = <<>>
          /\ hist[c].outcomes = <<>>
          /\ hist[c].after = hist[c].before
    /\ pc = "loop" => is_dir(before, Target)

\* organize_directory was called on a regular file, with either dry_run
InvalidTargetWitness ==
    /\ Len(hist) = 2
    /\ is_file(hist[1].before, Target)
    /\ hist[1].dry_run /\ ~hist[2].dry_run
    /\ hist[2].result = "invalid"

(***************************************************************************)
(* C6                                                                      *)
(***************************************************************************)
\* C6 as stated: a failure while relocating one file does not abort the
\* run: every file of the snapshot is passed to move_file and
\* organize_directory returns its count.
FailureDoesNotAbort ==
    \A c \in Calls : is_dir(hist[c].before, Target) =>
        /\ hist[c].result = "returned"
        /\ Len(hist[c].outcomes) = Len(hist[c].files)

\* the label directory of files[k] cannot be made in f: a regular file
\* occupies its path
LabelBlocked(f, p) == is_file(f, dest_dir_of(Target, p, keep_top_level))

\* C6 amended: a failure while relocating one file (a regular file occupies
\* the path of its label directory) is not caught: it leaves
\* organize_directory as an exception and ends the run at that file.  The
\* files before it in the snapshot were moved (or simulated), the failing
\* file and the files after it stay where they were and are not passed to
\* move_file, and no count is returned.  A run goes on only past files that
\* did not fail.
FailureAbortsRun ==
    /\ \A c \in Calls : hist[c].result = "raised" =>
          LET h == hist[c]
              k == Len(h.outcomes)
          IN  /\ 1 <= k /\ k <= Len(h.files)
              /\ h.outcomes[k].src = h.files[k]
              /\ h.outcomes[k].action = "raised"
              /\ LabelBlocked(h.after, h.files[k])
              /\ \A j \in 1..(k - 1) : counted(h.outcomes[j].action)
              /\ \A j \in k..Len(h.files) :
                    /\ is_file(h.after, h.files[j])
                    /\ h.after[h.files[j]] = h.before[h.files[j]]
    /\ \A c \in Calls : hist[c].result = "returned" =>
          \A j \in 1..Len(hist[c].outcomes) : counted(hist[c].outcomes[j].action)
    /\ \A j \in 1..Len(outcomes) : counted(outcomes[j].action)
    /\ (pc = "loop" /\ i <= Len(files) /\ LabelBlocked(fs, files[i]))
          => move_file(fs, files[i],
                       dest_dir_of(Target, files[i], keep_top_level),
                       dry_run).raised

\* a run was ended by its second file, the third was never tried
FailureAbortsWitness ==
    \E c \in Calls :
        /\ hist[c].result = "raised"
        /\ ~hist[c].dry_run
        /\ Len(hist[c].outcomes) = 1
        /\ Len(hist[c].files) = 2

(***************************************************************************)
(* C7                                                                      *)
(***************************************************************************)
\* the label of a name: its extension in lower case without the dot, or
\* no_extension
LabelOf(n) ==
    IF suffix(n) = <<>> THEN no_extension
    ELSE [k \in 1..(Len(suffix(n)) - 1) |-> LowerChar(suffix(n)[k + 1])]

\* C7: after a real run that completed, every file f of the snapshot is
\* directly inside D/L, L the label of f and D the target (keep_top_level)
\* or the parent f had (otherwise), under its own name or under
\* stem(k)suffix; with recursive=false and keep_top_level=true no regular
\* file is left directly inside the target.
FilesLandInLabelFolder ==
    \A c \in Calls : (~hist[c].dry_run /\ hist[c].result = "returned") =>
        LET h == hist[c]
        IN  /\ \A k \in 1..Len(h.files) :
                  LET f == h.files[k]
                      D == IF keep_top_level THEN Target ELSE parent(f)
                  IN  \E p \in RegularFiles(h.after) :
                          /\ h.after[p] = h.before[f]
                          /\ parent(p) = Append(D, LabelOf(name(f)))
                          /\ \/ name(p) = name(f)
                             \/ \E j \in 1..Cardinality(DOMAIN h.after) :
                                    name(p) = Numbered(name(f), j)
            /\ (~recursive /\ keep_top_level) =>
                  ~\E p \in RegularFiles(h.after) : ChildOf(p, Target)

\* a recursive real run with keep_top_level=false moved a file of a
\* subdirectory, and one with keep_top_level=true did
FilesLandWitness ==
    \E c \in Calls :
        /\ ~hist[c].dry_run /\ hist[c].result = "returned"
        /\ \E k \in 1..Len(hist[c].files) :
              /\ Len(hist[c].files[k]) = Len(Target) + 2
              /\ suffix(name(hist[c].files[k])) # <<>>
        /\ Len(hist[c].files) = 2

(***************************************************************************)
(* C8                                                                      *)
(***************************************************************************)
\* the sources of the move_file calls of a call, in order
Sources(out) == [k \in 1..Len(out) |-> out[k].src]

\* C8 as stated: every run ends after exactly one move_file call per file
\* of the start-of-run snapshot, in the walk's order.
OneMoveFilePerSnapshotFile ==
    \A c \in Calls : hist[c].result # "invalid" =>
        Sources(hist[c].outcomes) = hist[c].files

\* the snapshot is the files that existed when the call began, each once
IsSnapshot(fl, f) ==
    /\ Range(fl) = Scanned(f)
    /\ Len(fl) = Cardinality(Scanned(f))

\* what holds of the snapshot at every point of a run
SnapshotInvariant ==
    /\ \A c \in Calls : hist[c].result # "invalid" =>
          LET h == hist[c]
          IN  /\ IsSnapshot(h.files, h.before)
              /\ Sources(h.outcomes) = SubSeq(h.files, 1, Len(h.outcomes))
              /\ hist[c].result = "returned" => Sources(h.outcomes) = h.files
              /\ \A j, k \in 1..Len(h.outcomes) :
                    (j < k /\ h.outcomes[j].action = "moved")
                        => h.outcomes[j].dest # h.files[k]
    /\ pc = "loop" =>
          /\ IsSnapshot(files, before)
          /\ i = Len(outcomes) + 1
          /\ Sources(outcomes) = SubSeq(files, 1, i - 1)
          /\ \A k \in i..Len(files) :
                /\ is_file(fs, files[k])
                /\ fs[files[k]] = before[files[k]]

\* every step of a run ends the run or goes on to the next file of the same
\* snapshot, so a run takes at most one step per snapshot file and one more
LoopAdvances ==
    pc = "loop" =>
        \/ pc' = "idle"
        \/ /\ i' = i + 1
           /\ i' <= Len(files) + 1
           /\ files' = files
           /\ before' = before

\* C8 amended: the file list is one snapshot taken before the first move.
\* A run in which no move_file call raises ends after exactly one move_file
\* call per file that existed at the start, in the walk's order; a run in
\* which move_file raises ends at that call, after one call per file up to
\* it.  No path created by a move is processed later in the run, and each
\* snapshot file is still at its path, unchanged, when its turn comes.
SnapshotProcessedOnce ==
    /\ []SnapshotInvariant
    /\ [][LoopAdvances]_vars

\* a recursive real run moved both files of its snapshot, one of them
\* already inside a label folder of the scanned tree
SnapshotWitness ==
    \E c \in Calls :
        /\ recursive /\ ~hist[c].dry_run /\ hist[c].result = "returned"
        /\ Len(hist[c].outcomes) = 2
        /\ \E k \in 1..2 : LET f == hist[c].files[k]
                           IN  name(parent(f)) = LabelOf(name(f))

(***************************************************************************)
(* C9                                                                      *)
(***************************************************************************)
\* the destination call c gave for snapshot file f
DestinationOf(c, f) ==
    LET k == CHOOSE k \in 1..Len(hist[c].outcomes) : hist[c].outcomes[k].src = f
    IN  hist[c].outcomes[k].dest

\* C9: the destination a dry run reports for each snapshot file is the
\* destination to which a real run started from the same tree, with the same
\* settings (and walking the files in the same order), moves that file.
DryRunReportsRealDestinations ==
    \A c, d \in Calls :
        ( /\ hist[c].dry_run /\ ~hist[d].dry_run
          /\ hist[c].result = "returned" /\ hist[d].result = "returned"
          /\ hist[c].before = hist[d].before
          /\ hist[c].files = hist[d].files )
        => \A f \in Range(hist[c].files) :
               DestinationOf(c, f) = DestinationOf(d, f)

(***************************************************************************)
(* C10                                                                     *)
(***************************************************************************)
\* from filesystem f to filesystem g no file was lost, overwritten, made or
\* changed, no directory removed, and the files outside fl kept their paths
Preserved(f, g, fl) ==
    /\ Cardinality(RegularFiles(g)) = Cardinality(RegularFiles(f))
    /\ \A p \in RegularFiles(f) :
          Cardinality({q \in RegularFiles(g) : g[q] = f[p]}) = 1
    /\ Directories(f) \subseteq Directories(g)
    /\ \A p \in RegularFiles(f) \ Range(fl) : is_file(g, p) /\ g[p] = f[p]

\* C10: in a real run no file is overwritten or lost.  At every point of a
\* run, and after it, the files are in one-to-one correspondence with the
\* files present at its start, each with its content, and the files outside
\* the snapshot are at their paths; every move went to a path that did not
\* exist before it.
NoFileLostOrOverwritten ==
    /\ Preserved(before, fs, files)
    /\ \A c \in Calls : Preserved(hist[c].before, hist[c].after, hist[c].files)
    /\ \A c \in Calls : \A k \in 1..Len(hist[c].outcomes) :
          LET o == hist[c].outcomes[k]
          IN  o.action = "moved" =>
                  /\ is_file(hist[c].after, o.dest)
                  /\ hist[c].after[o.dest] = hist[c].before[o.src]

\* a real run moved a file next to a file of the same name that is not in
\* its snapshot
NoFileLostWitness ==
    \E c \in Calls :
        /\ ~hist[c].dry_run /\ hist[c].result = "returned"
        /\ \E k \in 1..Len(hist[c].outcomes) :
              LET o == hist[c].outcomes[k]
                  q == Append(parent(o.dest), name(o.src))
              IN  /\ o.action = "moved"
                  /\ o.dest # q
                  /\ q \notin Range(hist[c].files)
                  /\ is_file(hist[c].before, q)
                  /\ is_file(hist[c].after, q)

====
